---- MODULE Spec2Model ----
(***************************************************************************)
(* A model of statusline.py: one invocation reads a session snapshot from  *)
(* standard input, runs the usage-quota provider and the working-tree      *)
(* provider (each backed by a cache file in /tmp shared by every           *)
(* invocation), and renders up to two lines.  The host starts invocations  *)
(* one after another, or two at the same time.                             *)
(*                                                                         *)
(* Text is a sequence of one-character strings.  The usage cache holds     *)
(* JSON text, kept at the level of chunks; the working-tree cache and the  *)
(* status scan are kept character by character.                            *)
(***************************************************************************)
EXTENDS Integers, Sequences, FiniteSets, TLC

(***************************************************************************)
(* Bounds of the model.                                                    *)
(***************************************************************************)
MaxTicks == 2

(***************************************************************************)
(* Program constants.                                                      *)
(***************************************************************************)
USAGE_MAX_AGE == 60
GIT_MAX_AGE == 5
HTTP_TIMEOUT == 5
DEFAULT_WINDOW == 200000

Procs == {1, 2}

(***************************************************************************)
(* Python string operations on sequences of characters.                    *)
(***************************************************************************)
DigitChars == <<"0", "1", "2", "3", "4", "5", "6", "7", "8", "9">>

IsSpace(c) == c \in {" ", "\n", "\t"}

IsDigit(c) == \E i \in 1..10 : DigitChars[i] = c

DigitVal(c) == (CHOOSE i \in 1..10 : DigitChars[i] = c) - 1

RECURSIVE str(_)
str(n) ==
    IF n < 10 THEN <<DigitChars[n + 1]>>
    ELSE str(n \div 10) \o <<DigitChars[(n % 10) + 1]>>

RECURSIVE lstrip(_)
lstrip(s) ==
    IF s # <<>> /\ IsSpace(Head(s)) THEN lstrip(Tail(s)) ELSE s

RECURSIVE rstrip(_)
rstrip(s) ==
    IF s # <<>> /\ IsSpace(s[Len(s)]) THEN rstrip(SubSeq(s, 1, Len(s) - 1)) ELSE s

strip(s) == rstrip(lstrip(s))

\* s.split(sep): the pieces between the occurrences of the character sep.
RECURSIVE split(_, _)
split(s, sep) ==
    IF \A i \in 1..Len(s) : s[i] # sep THEN <<s>>
    ELSE LET k == CHOOSE i \in 1..Len(s) :
                      s[i] = sep /\ \A j \in 1..(i - 1) : s[j] # sep
         IN  <<SubSeq(s, 1, k - 1)>> \o split(SubSeq(s, k + 1, Len(s)), sep)

\* int(s) raises ValueError unless s, stripped, is a run of digits.
IntRaises(s) ==
    LET t == strip(s) IN t = <<>> \/ \E i \in 1..Len(t) : ~IsDigit(t[i])

RECURSIVE DigitsValue(_)
DigitsValue(t) ==
    IF t = <<>> THEN 0
    ELSE 10 * DigitsValue(SubSeq(t, 1, Len(t) - 1)) + DigitVal(t[Len(t)])

int(s) == DigitsValue(strip(s))

startswith(s, prefix) ==
    Len(s) >= Len(prefix) /\ SubSeq(s, 1, Len(prefix)) = prefix

(***************************************************************************)
(* JSON values as json.load returns them.  An object is a function from    *)
(* its keys; a key that is absent is not in the domain.  Strings are       *)
(* sequences of characters, numbers are integers.                          *)
(***************************************************************************)
JNull == [t |-> "null"]
JNum(n) == [t |-> "num", v |-> n]
JStr(s) == [t |-> "str", v |-> s]
JBool(b) == [t |-> "bool", v |-> b]
JList(l) == [t |-> "list", v |-> l]
JObj(f) == [t |-> "obj", v |-> f]
EmptyObj == JObj(<<>>)

\* Text that json.load / json.loads rejects.
NotJson == [t |-> "notjson"]

IsObj(x) == x.t = "obj"

\* A value arithmetic and comparison with a number accept (bool is an int).
IsNum(x) == x.t \in {"num", "bool"}

\* bool(x)
Truthy(x) ==
    CASE x.t = "null" -> FALSE
      [] x.t = "num"  -> x.v # 0
      [] x.t = "bool" -> x.v
      [] x.t = "str"  -> x.v # <<>>
      [] x.t = "list" -> x.v # <<>>
      [] x.t = "obj"  -> DOMAIN x.v # {}

\* x or d
Or(x, d) == IF Truthy(x) THEN x ELSE d

\* o.get(k, d) on a dict o; on anything else .get raises AttributeError.
get(o, k, d) == IF k \in DOMAIN o.v THEN o.v[k] ELSE d

(***************************************************************************)
(* The session snapshot reader, statusline.py lines 15-75.                 *)
(***************************************************************************)
HOME == <<"/", "h">>

model_of(data) ==
    get(get(data, "model", EmptyObj), "display_name", JStr(<<"?">>))

\* A reader that takes the context window without a default.
ctx_of_required(data) == get(data, "context_window", JNull)

ctx_of(data) == get(data, "context_window", EmptyObj)

pct_of(data) == Or(get(ctx_of(data), "used_percentage", JNull), JNum(0))

\* int(pct) raises on anything but a number or a numeric string.
IntOfRaises(x) ==
    CASE x.t \in {"num", "bool"} -> FALSE
      [] x.t = "str" -> IntRaises(x.v)
      [] OTHER -> TRUE

\* int(x), float(x) of a number, a bool or a numeric string.
NumOf(x) ==
    CASE x.t = "num" -> x.v
      [] x.t = "bool" -> IF x.v THEN 1 ELSE 0
      [] OTHER -> int(x.v)

pct_int_of(data) == NumOf(pct_of(data))

total_sz_of(data) ==
    get(ctx_of(data), "context_window_size", JNum(DEFAULT_WINDOW))

cur_of(data) == Or(get(ctx_of(data), "current_usage", JNull), EmptyObj)

TokKeys ==
    {"input_tokens", "cache_creation_input_tokens", "cache_read_input_tokens"}

tok_of(data, k) == Or(get(cur_of(data), k, JNull), JNum(0))

used_tok_of(data) ==
    NumOf(tok_of(data, "input_tokens"))
    + NumOf(tok_of(data, "cache_creation_input_tokens"))
    + NumOf(tok_of(data, "cache_read_input_tokens"))

cost_obj_of(data) == get(data, "cost", EmptyObj)
lines_add_of(data) == Or(get(cost_obj_of(data), "total_lines_added", JNull), JNum(0))
lines_rm_of(data) == Or(get(cost_obj_of(data), "total_lines_removed", JNull), JNum(0))

workspace_of(data) == get(data, "workspace", EmptyObj)

cwd_of(data) ==
    Or(get(workspace_of(data), "current_dir", JNull), get(data, "cwd", JStr(<<>>)))

path_short(cwd) ==
    IF startswith(cwd, HOME)
    THEN <<"~">> \o SubSeq(cwd, Len(HOME) + 1, Len(cwd))
    ELSE cwd

\* Whether lines 15-75 raise on this standard input: the exception is not
\* caught and the interpreter exits with status 1.
ReaderRaises(stdin) ==
    IF ~IsObj(stdin) THEN TRUE
    ELSE IF ~IsObj(get(stdin, "model", EmptyObj)) THEN TRUE
    ELSE IF ~IsObj(ctx_of(stdin)) THEN TRUE
    ELSE IF IntOfRaises(pct_of(stdin)) THEN TRUE
    ELSE IF ~IsObj(cur_of(stdin)) THEN TRUE
    ELSE IF \E k \in TokKeys : ~IsNum(tok_of(stdin, k)) THEN TRUE
    ELSE IF ~IsObj(cost_obj_of(stdin)) THEN TRUE
    ELSE IF ~IsObj(workspace_of(stdin)) THEN TRUE
    ELSE cwd_of(stdin).t # "str"

(***************************************************************************)
(* Cache files.  open(path, 'w') creates or truncates the file; the        *)
(* buffered text reaches the file in one write at the descriptor's offset  *)
(* 0 when the with-block closes it.  Nothing ever deletes a cache file.    *)
(***************************************************************************)
NoFile == [exists |-> FALSE, mtime |-> 0, content |-> <<>>]

File(text, t) == [exists |-> TRUE, mtime |-> t, content |-> text]

Truncate(f, t) == File(<<>>, t)

\* The bytes of text laid over the file from offset 0; what lies beyond stays.
WriteAt0(f, text, t) ==
    File(text \o SubSeq(f.content, Len(text) + 1, Len(f.content)), t)

(***************************************************************************)
(* Usage payloads: the JSON values the endpoint may answer with and the    *)
(* cache may hold, with the text json.dump writes for each.                *)
(***************************************************************************)
IsoReset == <<"2", "5", "Z">>

UsagePlain ==
    JObj([five_hour |-> JObj([utilization |-> JNum(42), resets_at |-> JStr(IsoReset)]),
          seven_day |-> JObj([utilization |-> JNum(7), resets_at |-> JNull])])

UsageExtra ==
    JObj([five_hour |-> JObj([utilization |-> JNum(91), resets_at |-> JStr(IsoReset)]),
          seven_day |-> JObj([utilization |-> JNum(70), resets_at |-> JStr(IsoReset)]),
          extra_usage |-> JObj([is_enabled |-> JBool(TRUE),
                                used_credits |-> JNum(250),
                                monthly_limit |-> JNum(1000)])])

\* Overage enabled with more used than the limit allows.
UsageOver ==
    JObj([five_hour |-> JObj([utilization |-> JNum(100), resets_at |-> JStr(IsoReset)]),
          seven_day |-> JObj([utilization |-> JNum(70), resets_at |-> JStr(IsoReset)]),
          extra_usage |-> JObj([is_enabled |-> JBool(TRUE),
                                used_credits |-> JNum(1500),
                                monthly_limit |-> JNum(1000)])])

\* Overage present but not enabled.
UsageDisabled ==
    JObj([five_hour |-> JObj([utilization |-> JNum(42), resets_at |-> JStr(IsoReset)]),
          seven_day |-> JObj([utilization |-> JNum(7), resets_at |-> JStr(IsoReset)]),
          extra_usage |-> JObj([is_enabled |-> JBool(FALSE),
                                used_credits |-> JNum(250),
                                monthly_limit |-> JNum(1000)])])

\* Valid JSON that is not an object.
UsageList == JList(<<JNum(1)>>)

\* An object whose utilization is not a number.
UsageBadUtil ==
    JObj([five_hour |-> JObj([utilization |-> JStr(<<"n", "a">>)])])

UsageValues ==
    {UsagePlain, UsageExtra, UsageOver, UsageDisabled, UsageList, UsageBadUtil}

\* json.dumps(v), in chunks.
JsonDumps(v) ==
    CASE v = UsagePlain   -> <<"{", "five", "seven", "}">>
      [] v = UsageExtra   -> <<"{", "five", "seven", "extra", "}">>
      [] v = UsageOver    -> <<"{", "five", "seven", "extra:over", "}">>
      [] v = UsageDisabled -> <<"{", "five", "seven", "extra:off", "}">>
      [] v = UsageList    -> <<"[", "1", "]">>
      [] v = UsageBadUtil -> <<"{", "five:na", "}">>

\* json.loads(text): the value whose text this is; NotJson when it raises
\* (an empty file, a text with data after the document, a cut document).
JsonLoads(text) ==
    IF \E v \in UsageValues : JsonDumps(v) = text
    THEN CHOOSE v \in UsageValues : JsonDumps(v) = text
    ELSE NotJson

(***************************************************************************)
(* The working-tree cache line, statusline.py lines 175-184.               *)
(***************************************************************************)
WT(b, s, m, u, r) ==
    [branch |-> b, staged |-> s, modified |-> m, untracked |-> u, remote |-> r]

NoWT == WT(<<>>, 0, 0, 0, <<>>)

\* f"{branch}|{staged}|{modified}|{untracked}|{remote}"
GitCacheLine(w) ==
    w.branch \o <<"|">> \o str(w.staged) \o <<"|">> \o str(w.modified)
    \o <<"|">> \o str(w.untracked) \o <<"|">> \o w.remote

parts_of(content) == split(strip(content), "|")

\* Lines 179-184 raise IndexError on fewer than four parts and ValueError
\* on a count that is not a number.
ParseGitCacheRaises(content) ==
    LET parts == parts_of(content)
    IN  Len(parts) < 4 \/ \E i \in 2..4 : IntRaises(parts[i])

ParseGitCache(content) ==
    LET parts == parts_of(content)
    IN  WT(parts[1], int(parts[2]), int(parts[3]), int(parts[4]),
           IF Len(parts) > 4 THEN parts[5] ELSE <<>>)

(***************************************************************************)
(* The status scan, statusline.py lines 150-152 and 165-173.  git prints   *)
(* one line per entry: the index state, the worktree state, a blank, the   *)
(* path, a newline.                                                        *)
(***************************************************************************)
RECURSIVE PorcelainText(_)
PorcelainText(entries) ==
    IF entries = <<>> THEN <<>>
    ELSE Head(entries) \o <<" ", "f", "\n">> \o PorcelainText(Tail(entries))

\* The loop of lines 166-173 over the lines of the stripped output.
RECURSIVE CountLines(_, _)
CountLines(lines, acc) ==
    IF lines = <<>> THEN acc
    ELSE LET line == Head(lines)
             idx == line[1]
             wt == line[2]
             next ==
                 IF line = <<>> THEN acc
                 ELSE IF idx = "?"
                 THEN [acc EXCEPT !.untracked = @ + 1]
                 ELSE [acc EXCEPT
                         !.staged = IF idx \notin {" ", "?"} THEN @ + 1 ELSE @,
                         !.modified = IF wt \notin {" ", "?"} THEN @ + 1 ELSE @]
         IN  CountLines(Tail(lines), next)

\* porcelain = check_output(...).strip(), then the counts.
ParsePorcelain(output) ==
    CountLines(split(strip(output), "\n"),
               [staged |-> 0, modified |-> 0, untracked |-> 0])

\* line[1] raises IndexError on a line of one character.
ParsePorcelainRaises(output) ==
    \E i \in DOMAIN split(strip(output), "\n") :
        Len(split(strip(output), "\n")[i]) = 1

(***************************************************************************)
(* Formatting, statusline.py lines 28-51.  Rendered text is a sequence of  *)
(* tokens: characters, and one token for each colour escape.               *)
(***************************************************************************)
OneDecimal(n, unit) ==
    LET tenths == (n * 10 + unit \div 2) \div unit
    IN  str(tenths \div 10) \o <<".">> \o str(tenths % 10)

fmt_tok(n) ==
    IF n >= 1000000 THEN OneDecimal(n, 1000000) \o <<"M">>
    ELSE IF n >= 1000 THEN OneDecimal(n, 1000) \o <<"k">>
    ELSE str(n)

usage_color(pct) ==
    IF pct >= 90 THEN "RED" ELSE IF pct >= 70 THEN "YELLOW" ELSE "GREEN"

\* fmt_reset never raises: a missing, malformed or non-string timestamp
\* gives the empty string.
fmt_reset(iso, style) ==
    IF ~Truthy(iso) THEN <<>>
    ELSE IF iso.t # "str" \/ iso.v # IsoReset THEN <<>>
    ELSE IF style = "time" THEN <<"6", ":", "3", "0", "p", "m">>
    ELSE <<"f", "e", "b", " ", "1", "0", ",", " ", "6", ":", "3", "0", "p", "m">>

\* f"{x}" of a value read from JSON.
Fmt(x) ==
    CASE x.t = "str" -> x.v
      [] x.t = "num" -> str(x.v)
      [] x.t = "null" -> <<"None">>
      [] x.t = "bool" -> IF x.v THEN <<"True">> ELSE <<"False">>
      [] OTHER -> <<"repr">>

\* A two-decimal format that drops the sign.
MoneyUnsigned(cents) ==
    LET a == IF cents < 0 THEN 0 - cents ELSE cents
    IN  str(a \div 100) \o <<".">> \o str((a % 100) \div 10) \o str(a % 10)

\* f"{cents / 100:.2f}"
Money(cents) ==
    LET a == IF cents < 0 THEN 0 - cents ELSE cents
    IN  (IF cents < 0 THEN <<"-">> ELSE <<>>)
        \o str(a \div 100) \o <<".">> \o str((a % 100) \div 10) \o str(a % 10)

Seg(k, s) == [k |-> k, s |-> s]

(***************************************************************************)
(* The working-tree segment, statusline.py lines 186-195.  The OSC 8 link  *)
(* escapes around the branch are the tokens "<" and ">".                   *)
(***************************************************************************)
git_info_of(w) ==
    LET branch_link ==
            IF w.remote # <<>> THEN <<"<">> \o w.remote \o <<">">> \o w.branch
            ELSE w.branch
    IN  branch_link
        \o (IF w.staged # 0 THEN <<" ", "GREEN", "+">> \o str(w.staged) ELSE <<>>)
        \o (IF w.modified # 0 THEN <<" ", "YELLOW", "~">> \o str(w.modified) ELSE <<>>)
        \o (IF w.untracked # 0 THEN <<" ", "DIM", "?">> \o str(w.untracked) ELSE <<>>)

(***************************************************************************)
(* The renderer, statusline.py lines 201-242.                              *)
(***************************************************************************)
\* Line 1: model | path | git, with the line changes nested under git.
Line1(data, git_info) ==
    <<Seg("model", <<"WHITE">> \o Fmt(model_of(data))),
      Seg("path", path_short(cwd_of(data).v))>>
    \o (IF git_info # <<>>
        THEN <<Seg("git", git_info)>>
             \o (IF Truthy(lines_add_of(data)) \/ Truthy(lines_rm_of(data))
                 THEN <<Seg("lines", <<"GREEN", "+">> \o Fmt(lines_add_of(data))
                                     \o <<"/", "RED", "-">> \o Fmt(lines_rm_of(data)))>>
                 ELSE <<>>)
        ELSE <<>>)

\* fmt_tok(total_sz) compares its argument with a number.
ContextRaises(data) == ~IsNum(total_sz_of(data))

ContextSeg(data) ==
    Seg("context", fmt_tok(used_tok_of(data)) \o <<"/">>
                   \o fmt_tok(NumOf(total_sz_of(data)))
                   \o <<" ", usage_color(pct_int_of(data))>>
                   \o str(pct_int_of(data)) \o <<"%">>)

\* float(x) raises on anything but a number or a numeric string.
FloatRaises(x) == IntOfRaises(x)

window_of(usage, k) == Or(get(usage, k, JNull), EmptyObj)
util_of(w) == Or(get(w, "utilization", JNull), JNum(0))

WindowRaises(usage, k) ==
    IF ~IsObj(window_of(usage, k)) THEN TRUE
    ELSE FloatRaises(util_of(window_of(usage, k)))

WindowSeg(usage, k, label, style) ==
    LET w == window_of(usage, k)
        pct == NumOf(util_of(w))
        reset == fmt_reset(get(w, "resets_at", JNull), style)
    IN  Seg(label, <<usage_color(pct)>> \o str(pct) \o <<"%">>
                   \o (IF reset # <<>> THEN <<" ", "resets", " ">> \o reset ELSE <<>>))

extra_of(usage) == Or(get(usage, "extra_usage", JNull), EmptyObj)

ExtraEnabled(usage) == Truthy(get(extra_of(usage), "is_enabled", JNull))

ExtraRaises(usage) ==
    IF ~IsObj(extra_of(usage)) THEN TRUE
    ELSE IF ~ExtraEnabled(usage) THEN FALSE
    ELSE \/ FloatRaises(Or(get(extra_of(usage), "used_credits", JNull), JNum(0)))
         \/ FloatRaises(Or(get(extra_of(usage), "monthly_limit", JNull), JNum(0)))

ExtraSeg(usage) ==
    LET used == NumOf(Or(get(extra_of(usage), "used_credits", JNull), JNum(0)))
        limit == NumOf(Or(get(extra_of(usage), "monthly_limit", JNull), JNum(0)))
    IN  Seg("extra", <<"$">> \o Money(limit - used) \o <<" ", "left">>)

\* Lines 216-240 are outside any try: what they raise ends the run.
UsageRaises(usage) ==
    IF ~Truthy(usage) THEN FALSE
    ELSE IF ~IsObj(usage) THEN TRUE
    ELSE IF WindowRaises(usage, "five_hour") THEN TRUE
    ELSE IF WindowRaises(usage, "seven_day") THEN TRUE
    ELSE ExtraRaises(usage)

UsageSegs(usage) ==
    IF ~Truthy(usage) THEN <<>>
    ELSE <<WindowSeg(usage, "five_hour", "current", "time"),
           WindowSeg(usage, "seven_day", "weekly", "datetime")>>
         \o (IF ExtraEnabled(usage) THEN <<ExtraSeg(usage)>> ELSE <<>>)

RenderRaises(data, usage) == ContextRaises(data) \/ UsageRaises(usage)

\* What reaches standard output: line 1 is written (line 208) before
\* line 2 is built, so a failure in line 2 leaves line 1 alone.
Render(data, usage, git_info) ==
    IF RenderRaises(data, usage)
    THEN [line1 |-> Line1(data, git_info), line2 |-> <<>>]
    ELSE [line1 |-> Line1(data, git_info),
          line2 |-> <<ContextSeg(data)>> \o UsageSegs(usage)]

NoOutput == [line1 |-> <<>>, line2 |-> <<>>]

(***************************************************************************)
(* The inputs of an invocation: what the host writes to standard input     *)
(* and what the external collaborators answer.  conc is the scenario: two  *)
(* invocations running at the same time (with the inputs under which both  *)
(* refresh), or one invocation after another.                              *)
(***************************************************************************)
VARIABLES
    now,         \* time.time(), in seconds
    ticks,       \* how often the clock has advanced
    conc,        \* TRUE: the host runs two invocations at once
    ufile,       \* USAGE_CACHE
    gfile,       \* GIT_CACHE
    pc,          \* where each invocation is
    data,        \* json.load(sys.stdin)
    usage_data,  \* the usage payload, JNull for None
    wt,          \* branch, staged, modified, untracked, remote
    git_info,    \* the working-tree segment, <<>> for ''
    out,         \* what was written to standard output
    exitCode,    \* -1 while running
    h,           \* per invocation: what happened, for the properties
    lastWrite    \* per cache file: the text of the last completed write

vars ==
    <<now, ticks, conc, ufile, gfile, pc, data, usage_data, wt, git_info,
      out, exitCode, h, lastWrite>>

Delays == {GIT_MAX_AGE, USAGE_MAX_AGE}

\* The working directories of the sessions: two concurrent invocations
\* belong to two sessions, each in its own directory.
WorkDirs == << <<"/", "h", "/", "p">>, <<"/", "h", "/", "q">> >>

DataFullIn(dir) ==
    JObj([model |-> JObj([display_name |-> JStr(<<"O", "p", "u", "s">>)]),
          context_window |->
              JObj([used_percentage |-> JNum(45),
                    context_window_size |-> JNum(200000),
                    current_usage |-> JObj([input_tokens |-> JNum(90000)])]),
          cost |-> JObj([total_cost_usd |-> JNum(1),
                         total_lines_added |-> JNum(3),
                         total_lines_removed |-> JNum(1)]),
          workspace |-> JObj([current_dir |-> JStr(dir)])])

DataFull == DataFullIn(WorkDirs[1])

\* No optional field: no context_window, no cost.
DataBare ==
    JObj([model |-> JObj([display_name |-> JStr(<<"O", "p", "u", "s">>)]),
          workspace |-> JObj([current_dir |-> JStr(<<"/", "h", "/", "p">>)])])

DataModelNull ==
    JObj([model |-> JNull,
          workspace |-> JObj([current_dir |-> JStr(<<"/", "h", "/", "p">>)])])

DataSizeNull ==
    JObj([model |-> JObj([display_name |-> JStr(<<"O", "p", "u", "s">>)]),
          context_window |-> JObj([context_window_size |-> JNull]),
          cost |-> JObj([total_lines_added |-> JNum(3)]),
          workspace |-> JObj([current_dir |-> JStr(<<"/", "h", "/", "p">>)])])

Stdins(p) ==
    IF conc THEN {DataFullIn(WorkDirs[p])}
    ELSE {DataFull, DataBare, DataModelNull, DataSizeNull, NotJson}

\* ~/.claude/.credentials.json
CredsOutcomes ==
    IF conc THEN {"token"} ELSE {"absent", "unparsable", "notoken", "token"}

\* sys.platform == "darwin"
Platforms == IF conc THEN {FALSE} ELSE BOOLEAN

\* An external call answers, fails, or never returns.
Ok(v) == [r |-> "ok", v |-> v]
Fail == [r |-> "fail"]
Hang == [r |-> "hang"]

\* security find-generic-password: Ok is an entry that holds a token.
KeychainOutcomes == {Ok(<<"t">>), Fail, Hang}

\* The usage request: Ok carries the response body as text, Fail is a
\* request error or a non-2xx status, Hang a peer that never answers.
HttpOutcomes ==
    IF conc THEN {Ok(JsonDumps(UsagePlain)), Ok(JsonDumps(UsageExtra))}
    ELSE {Ok(JsonDumps(UsagePlain)), Ok(JsonDumps(UsageList)),
          Ok(JsonDumps(UsageBadUtil)), Ok(<<"<", "html", ">">>), Fail, Hang}

\* git rev-parse --git-dir: Fail outside a working tree or without git.
RevParseOutcomes == IF conc THEN {Ok(<< >>)} ELSE {Ok(<< >>), Fail, Hang}

\* Line 139: the directory the git commands run in.
work_dir_of(snapshot) ==
    Or(get(workspace_of(snapshot), "current_dir", JNull), JNull)

\* The branch checked out in each working directory.
BranchIn(work_dir) ==
    IF work_dir = JStr(WorkDirs[2]) THEN <<"n", "\n">> ELSE <<"m", "\n">>

\* git branch --show-current, run in work_dir
BranchOutcomes(work_dir) ==
    IF conc THEN {Ok(BranchIn(work_dir))} ELSE {Ok(BranchIn(work_dir)), Fail, Hang}

\* git status --porcelain: Ok carries the entries of the scan, each an
\* index state and a worktree state.
StatusOutcomes ==
    IF conc THEN {Ok(<< >>)}
    ELSE {Ok(<< >>), Ok(<< <<" ", "M">> >>),
          Ok(<< <<"M", " ">>, <<"?", "?">>, <<"M", "M">> >>), Fail, Hang}

\* git remote get-url origin.  The URL is one in https form without a
\* .git suffix, which the substitutions of lines 159-161 leave as it is.
RemoteOutcomes ==
    IF conc THEN {Ok(<<"u", "\n">>), Fail} ELSE {Ok(<<"u", "\n">>), Fail, Hang}

\* Whether open(path, 'w') succeeds: the cache path may belong to another
\* user.
OpenOutcomes == IF conc THEN {TRUE} ELSE BOOLEAN

CallNames ==
    {"creds", "keychain", "http", "revparse", "branch", "status", "remote"}

\* The timeout each external call is given, 0 for none: urlopen(req,
\* timeout=5); no subprocess.check_output call passes timeout=.
Timeout(call) == IF call = "http" THEN HTTP_TIMEOUT ELSE 0

\* What the caller sees of a call: with a timeout an unresponsive peer is a
\* failure; without one the call never returns.
Seen(call, outcome) ==
    IF outcome.r = "hang" /\ Timeout(call) > 0 THEN Fail ELSE outcome

\* A cache file that holds a complete payload.
Parsable(f) == f.exists /\ JsonLoads(f.content) # NotJson

TreeParsable(f) == f.exists /\ ~ParseGitCacheRaises(f.content)

H0 ==
    [calls |-> {}, uWithin |-> FALSE, gWithin |-> FALSE,
     uTorn |-> FALSE, gTorn |-> FALSE,
     uRefresh |-> "none", gRefresh |-> "none", uToken |-> FALSE,
     uPrior |-> NoFile, gPrior |-> NoFile,
     uWrote |-> 0, gWrote |-> 0, scan |-> << >>]

Init ==
    /\ now = 0
    /\ ticks = 0
    /\ conc \in BOOLEAN
    /\ ufile = NoFile
    /\ gfile = NoFile
    /\ pc = [p \in Procs |-> "idle"]
    /\ data = [p \in Procs |-> EmptyObj]
    /\ usage_data = [p \in Procs |-> JNull]
    /\ wt = [p \in Procs |-> NoWT]
    /\ git_info = [p \in Procs |-> << >>]
    /\ out = [p \in Procs |-> NoOutput]
    /\ exitCode = [p \in Procs |-> -1]
    /\ h = [p \in Procs |-> H0]
    /\ lastWrite = [u |-> << >>, g |-> << >>]

\* The clock advances between any two steps.
Tick ==
    /\ ticks < MaxTicks
    /\ \E d \in Delays : now' = now + d
    /\ ticks' = ticks + 1
    /\ UNCHANGED <<conc, ufile, gfile, pc, data, usage_data, wt, git_info,
                   out, exitCode, h, lastWrite>>

(***************************************************************************)
(* Lines 15-75: the host starts an invocation; it reads standard input.    *)
(* One after another, an invocation starts when the previous one has       *)
(* exited.  An exception here is not caught: exit status 1, no output.     *)
(***************************************************************************)
StartWith(p, stdins) ==
    /\ pc[p] = "idle" \/ (pc[p] = "exited" /\ ~conc)
    /\ p = 1 \/ conc
    /\ \E stdin \in stdins :
           IF ReaderRaises(stdin)
           THEN /\ pc' = [pc EXCEPT ![p] = "exited"]
                /\ exitCode' = [exitCode EXCEPT ![p] = 1]
                /\ data' = [data EXCEPT ![p] = EmptyObj]
           ELSE /\ pc' = [pc EXCEPT ![p] = "u_check"]
                /\ exitCode' = [exitCode EXCEPT ![p] = -1]
                /\ data' = [data EXCEPT ![p] = stdin]
    /\ usage_data' = [usage_data EXCEPT ![p] = JNull]
    /\ wt' = [wt EXCEPT ![p] = NoWT]
    /\ git_info' = [git_info EXCEPT ![p] = << >>]
    /\ out' = [out EXCEPT ![p] = NoOutput]
    /\ h' = [h EXCEPT ![p] = H0]
    /\ UNCHANGED <<now, ticks, conc, ufile, gfile, lastWrite>>

Start(p) == StartWith(p, Stdins(p))

(***************************************************************************)
(* The usage provider, statusline.py lines 81-131.                         *)
(***************************************************************************)
\* Line 85: (time.time() - os.path.getmtime(USAGE_CACHE)) < USAGE_MAX_AGE
UsageFresh(f, t) == f.exists /\ (t - f.mtime) < USAGE_MAX_AGE

\* Lines 83-90.  needs_refresh is cleared before json.load, so a fresh file
\* that does not parse goes to the except clause, not to the refresh.
UsageCheck(p) ==
    /\ pc[p] = "u_check"
    /\ LET fresh == UsageFresh(ufile, now)
           loaded == JsonLoads(ufile.content)
           hist == [h[p] EXCEPT
                      !.uWithin = Parsable(ufile) /\ (now - ufile.mtime) <= USAGE_MAX_AGE,
                      !.uTorn = fresh /\ loaded = NotJson]
       IN  /\ h' = [h EXCEPT ![p] = hist]
           /\ IF ~fresh
              THEN /\ pc' = [pc EXCEPT ![p] = "u_refresh"]
                   /\ UNCHANGED usage_data
              ELSE IF loaded = NotJson
              THEN /\ pc' = [pc EXCEPT ![p] = "u_except"]
                   /\ UNCHANGED usage_data
              ELSE /\ pc' = [pc EXCEPT ![p] = "g_check"]
                   /\ usage_data' = [usage_data EXCEPT ![p] = loaded]
    /\ UNCHANGED <<now, ticks, conc, ufile, gfile, data, wt, git_info, out,
                   exitCode, lastWrite>>

\* Lines 91-108: the credential file, then on macOS the Keychain.  A
\* credential file that does not parse raises out of the lookup.
TokenLookup(creds, darwin, kc) ==
    IF creds = "unparsable"
    THEN [end |-> "raised", calls |-> {"creds"}]
    ELSE IF creds = "token"
    THEN [end |-> "token", calls |-> {"creds"}]
    ELSE IF ~darwin
    THEN [end |-> "notoken", calls |-> {"creds"}]
    ELSE [end |-> CASE Seen("keychain", kc).r = "hang" -> "hung"
                    [] Seen("keychain", kc).r = "fail" -> "notoken"
                    [] OTHER -> "token",
          calls |-> {"creds", "keychain"}]

\* Lines 109-121: the request and json.loads of its body.
Fetch(http) ==
    IF Seen("http", http).r # "ok" THEN NotJson ELSE JsonLoads(http.v)

\* A refresh that sends the request whether or not it holds a token.
UsageRefreshEndUnguarded(creds, darwin, kc, http) ==
    LET tl == TokenLookup(creds, darwin, kc)
        token == tl.end = "token"
    IN  IF tl.end \in {"hung", "raised"}
        THEN [end |-> tl.end, calls |-> tl.calls, usage |-> JNull, token |-> token]
        ELSE IF Fetch(http) = NotJson
        THEN [end |-> "failed", calls |-> tl.calls \cup {"http"}, usage |-> JNull,
              token |-> token]
        ELSE [end |-> "ok", calls |-> tl.calls \cup {"http"}, usage |-> Fetch(http),
              token |-> token]

\* Where lines 91-121 end: "hung", "raised" (the except clause), "notoken"
\* (line 109: no request, no write), or "ok" with the payload; token is
\* whether the lookup gave a non-empty token.
UsageRefreshEnd(creds, darwin, kc, http) ==
    LET tl == TokenLookup(creds, darwin, kc)
        token == tl.end = "token"
    IN  IF ~token
        THEN [end |-> tl.end, calls |-> tl.calls, usage |-> JNull, token |-> token]
        ELSE IF Fetch(http) = NotJson
        THEN [end |-> "failed", calls |-> tl.calls \cup {"http"}, usage |-> JNull,
              token |-> token]
        ELSE [end |-> "ok", calls |-> tl.calls \cup {"http"}, usage |-> Fetch(http),
              token |-> token]

UsageRefresh(p) ==
    /\ pc[p] = "u_refresh"
    /\ \E creds \in CredsOutcomes, darwin \in Platforms,
          kc \in KeychainOutcomes, http \in HttpOutcomes :
           LET e == UsageRefreshEnd(creds, darwin, kc, http)
           IN  /\ pc' = [pc EXCEPT ![p] =
                          CASE e.end = "hung" -> "hung"
                            [] e.end = "notoken" -> "g_check"
                            [] e.end = "ok" -> "u_open"
                            [] OTHER -> "u_except"]
               /\ usage_data' = [usage_data EXCEPT ![p] = e.usage]
               /\ h' = [h EXCEPT ![p].calls = @ \cup e.calls,
                                 ![p].uRefresh = e.end,
                                 ![p].uToken = e.token,
                                 ![p].uPrior = IF e.end = "notoken" THEN ufile ELSE @]
    /\ UNCHANGED <<now, ticks, conc, ufile, gfile, data, wt, git_info, out,
                   exitCode, lastWrite>>

\* Line 122: open(USAGE_CACHE, 'w') truncates the file, or raises.
UsageOpen(p) ==
    /\ pc[p] = "u_open"
    /\ \E ok \in OpenOutcomes :
           IF ok
           THEN /\ ufile' = Truncate(ufile, now)
                /\ pc' = [pc EXCEPT ![p] = "u_write"]
           ELSE /\ UNCHANGED ufile
                /\ pc' = [pc EXCEPT ![p] = "u_except"]
    /\ h' = [h EXCEPT ![p].uWrote = @ + 1]
    /\ UNCHANGED <<now, ticks, conc, gfile, data, usage_data, wt, git_info,
                   out, exitCode, lastWrite>>

\* Line 123 and the end of the with-block: the text is written and the file
\* closed.
UsageWrite(p) ==
    /\ pc[p] = "u_write"
    /\ ufile' = WriteAt0(ufile, JsonDumps(usage_data[p]), now)
    /\ lastWrite' = [lastWrite EXCEPT !.u = JsonDumps(usage_data[p])]
    /\ pc' = [pc EXCEPT ![p] = "g_check"]
    /\ UNCHANGED <<now, ticks, conc, gfile, data, usage_data, wt, git_info,
                   out, exitCode, h>>

\* An except clause that falls back to the cache only while it is fresh.
StaleUsageOnlyFresh(f, usage) ==
    IF f.exists /\ usage = JNull /\ UsageFresh(f, now)
    THEN IF JsonLoads(f.content) = NotJson THEN JNull ELSE JsonLoads(f.content)
    ELSE usage

\* Lines 124-131: what usage_data is after the except clause.
StaleUsage(f, usage) ==
    IF f.exists /\ usage = JNull
    THEN IF JsonLoads(f.content) = NotJson THEN JNull ELSE JsonLoads(f.content)
    ELSE usage

\* An except clause that also touches the cache file it fell back to.
UsageExceptTouching(p) ==
    /\ pc[p] = "u_except"
    /\ usage_data' = [usage_data EXCEPT ![p] = StaleUsage(ufile, usage_data[p])]
    /\ ufile' = IF ufile.exists THEN [ufile EXCEPT !.mtime = now] ELSE ufile
    /\ h' = [h EXCEPT ![p].uPrior = ufile]
    /\ pc' = [pc EXCEPT ![p] = "g_check"]
    /\ UNCHANGED <<now, ticks, conc, gfile, data, wt, git_info, out,
                   exitCode, lastWrite>>

UsageExcept(p) ==
    /\ pc[p] = "u_except"
    /\ usage_data' = [usage_data EXCEPT ![p] = StaleUsage(ufile, usage_data[p])]
    /\ h' = [h EXCEPT ![p].uPrior = ufile]
    /\ pc' = [pc EXCEPT ![p] = "g_check"]
    /\ UNCHANGED <<now, ticks, conc, ufile, gfile, data, wt, git_info, out,
                   exitCode, lastWrite>>

(***************************************************************************)
(* The working-tree provider, statusline.py lines 137-197.  Any exception  *)
(* in it leaves git_info = ''.                                             *)
(***************************************************************************)
\* Lines 143-144.
git_stale(f, t) == ~f.exists \/ (t - f.mtime) > GIT_MAX_AGE

\* Lines 139-146 and, on a cache hit, 178-195.
GitCheck(p) ==
    /\ pc[p] = "g_check"
    /\ \E rp \in RevParseOutcomes :
           LET seen == Seen("revparse", rp)
               stale == git_stale(gfile, now)
               torn == ParseGitCacheRaises(gfile.content)
           IN  /\ pc' = [pc EXCEPT ![p] =
                          CASE seen.r = "hang" -> "hung"
                            [] seen.r = "fail" -> "render"
                            [] stale -> "g_refresh"
                            [] OTHER -> "render"]
               /\ git_info' = [git_info EXCEPT ![p] =
                          IF seen.r = "ok" /\ ~stale /\ ~torn
                          THEN git_info_of(ParseGitCache(gfile.content))
                          ELSE << >>]
               /\ h' = [h EXCEPT
                          ![p].calls = @ \cup {"revparse"},
                          ![p].gWithin = TreeParsable(gfile) /\ (now - gfile.mtime) <= GIT_MAX_AGE,
                          ![p].gTorn = seen.r = "ok" /\ ~stale /\ torn,
                          ![p].gRefresh = IF seen.r = "fail" THEN "notree" ELSE @]
    /\ UNCHANGED <<now, ticks, conc, ufile, gfile, data, usage_data, wt, out,
                   exitCode, lastWrite>>

\* Lines 147-173: the branch, the status scan, the remote, in this order;
\* the first call that never returns blocks the rest.  A failure of the
\* remote query alone leaves remote = ''.
GitRefreshEnd(br, st, rm) ==
    IF br.r # "ok" THEN [end |-> br.r, calls |-> {"branch"}, w |-> NoWT]
    ELSE IF st.r # "ok" THEN [end |-> st.r, calls |-> {"branch", "status"}, w |-> NoWT]
    ELSE IF rm.r = "hang"
    THEN [end |-> "hang", calls |-> {"branch", "status", "remote"}, w |-> NoWT]
    ELSE IF ParsePorcelainRaises(PorcelainText(st.v))
    THEN [end |-> "fail", calls |-> {"branch", "status", "remote"}, w |-> NoWT]
    ELSE LET n == ParsePorcelain(PorcelainText(st.v))
         IN  [end |-> "ok", calls |-> {"branch", "status", "remote"},
              w |-> WT(strip(br.v), n.staged, n.modified, n.untracked,
                       IF rm.r = "ok" THEN strip(rm.v) ELSE << >>)]

GitRefreshWith(p, branches) ==
    /\ pc[p] = "g_refresh"
    /\ \E br \in branches, st \in StatusOutcomes, rm \in RemoteOutcomes :
           LET e == GitRefreshEnd(Seen("branch", br), Seen("status", st),
                                  Seen("remote", rm))
           IN  /\ pc' = [pc EXCEPT ![p] =
                          CASE e.end = "hang" -> "hung"
                            [] e.end = "ok" -> "g_open"
                            [] OTHER -> "render"]
               /\ wt' = [wt EXCEPT ![p] = e.w]
               /\ h' = [h EXCEPT
                          ![p].calls = @ \cup e.calls,
                          ![p].gRefresh = IF e.end = "ok" THEN "ok" ELSE "failed",
                          ![p].gPrior = IF e.end = "fail" THEN gfile ELSE @,
                          ![p].scan = IF e.end = "ok" THEN st.v ELSE @]
    /\ UNCHANGED <<now, ticks, conc, ufile, gfile, data, usage_data, git_info,
                   out, exitCode, lastWrite>>

GitRefresh(p) == GitRefreshWith(p, BranchOutcomes(work_dir_of(data[p])))

\* Line 175: open(GIT_CACHE, 'w') truncates the file, or raises.
GitOpen(p) ==
    /\ pc[p] = "g_open"
    /\ \E ok \in OpenOutcomes :
           IF ok
           THEN /\ gfile' = Truncate(gfile, now)
                /\ pc' = [pc EXCEPT ![p] = "g_write"]
           ELSE /\ UNCHANGED gfile
                /\ pc' = [pc EXCEPT ![p] = "render"]
    /\ h' = [h EXCEPT ![p].gWrote = @ + 1]
    /\ UNCHANGED <<now, ticks, conc, ufile, data, usage_data, wt, git_info,
                   out, exitCode, lastWrite>>

\* Line 176 and the end of the with-block, then lines 186-195.
GitWrite(p) ==
    /\ pc[p] = "g_write"
    /\ gfile' = WriteAt0(gfile, GitCacheLine(wt[p]), now)
    /\ lastWrite' = [lastWrite EXCEPT !.g = GitCacheLine(wt[p])]
    /\ git_info' = [git_info EXCEPT ![p] = git_info_of(wt[p])]
    /\ pc' = [pc EXCEPT ![p] = "render"]
    /\ UNCHANGED <<now, ticks, conc, ufile, data, usage_data, wt, out,
                   exitCode, h>>

(***************************************************************************)
(* Lines 199-242: the output.  An exception here is not caught.  The       *)
(* process then exits: its variables are gone, its output and exit status  *)
(* remain.                                                                 *)
(***************************************************************************)
Output(p) ==
    /\ pc[p] = "render"
    /\ out' = [out EXCEPT ![p] = Render(data[p], usage_data[p], git_info[p])]
    /\ exitCode' = [exitCode EXCEPT ![p] =
                      IF RenderRaises(data[p], usage_data[p]) THEN 1 ELSE 0]
    /\ pc' = [pc EXCEPT ![p] = "exited"]
    /\ data' = [data EXCEPT ![p] = EmptyObj]
    /\ usage_data' = [usage_data EXCEPT ![p] = JNull]
    /\ wt' = [wt EXCEPT ![p] = NoWT]
    /\ git_info' = [git_info EXCEPT ![p] = << >>]
    /\ UNCHANGED <<now, ticks, conc, ufile, gfile, h, lastWrite>>

Next ==
    \/ Tick
    \/ \E p \in Procs :
           \/ Start(p)
           \/ UsageCheck(p)
           \/ UsageRefresh(p)
           \/ UsageOpen(p)
           \/ UsageWrite(p)
           \/ UsageExcept(p)
           \/ GitCheck(p)
           \/ GitRefresh(p)
           \/ GitOpen(p)
           \/ GitWrite(p)
           \/ Output(p)

Spec == Init /\ [][Next]_vars

(***************************************************************************)
(* The renderer over every shape of the session snapshot.  The snapshots   *)
(* are the valid session objects with any subset of the optional fields    *)
(* missing, in a directory that is the home directory, lies below it, has  *)
(* a name that begins with the characters of the home path, or lies        *)
(* elsewhere.  The two providers are taken by their results: any payload   *)
(* for usage_data, any segment for git_info.                               *)
(***************************************************************************)
Absent == [t |-> "absent"]

CtxFields ==
    [used_percentage |-> JNum(45),
     context_window_size |-> JNum(200000),
     current_usage |-> JObj([input_tokens |-> JNum(90000)])]

CostFields ==
    [total_cost_usd |-> JNum(1),
     total_lines_added |-> JNum(3),
     total_lines_removed |-> JNum(1)]

\* The object with the fields f, any subset of them missing, or no object.
OptionalObjs(f) ==
    {JObj([k \in S |-> f[k]]) : S \in SUBSET DOMAIN f} \cup {Absent}

SnapshotOf(dir, ctx, cost) ==
    LET keys == {"model", "workspace"}
                \cup (IF ctx = Absent THEN {} ELSE {"context_window"})
                \cup (IF cost = Absent THEN {} ELSE {"cost"})
    IN  JObj([k \in keys |->
                CASE k = "model" -> JObj([display_name |-> JStr(<<"O", "p", "u", "s">>)])
                  [] k = "workspace" -> JObj([current_dir |-> JStr(dir)])
                  [] k = "context_window" -> ctx
                  [] k = "cost" -> cost])

SnapshotDirs ==
    {HOME, <<"/", "h", "/", "p">>, <<"/", "h", "x", "/", "p">>, <<"/", "o", "/", "p">>}

Snapshots ==
    {SnapshotOf(dir, ctx, cost) :
        dir \in SnapshotDirs,
        ctx \in OptionalObjs(CtxFields), cost \in OptionalObjs(CostFields)}

\* What the usage provider may leave in usage_data.
RenderUsages ==
    {JNull, UsagePlain, UsageExtra, UsageOver, UsageDisabled, UsageList,
     UsageBadUtil}

\* What the working-tree provider may leave in git_info.
TreeSegments == {<< >>, git_info_of(WT(<<"m">>, 1, 0, 2, <<"u">>))}

SeqInit == Init /\ ~conc

\* Lines 15-75 on any of the snapshots.
ReadSnapshot(p) == StartWith(p, Snapshots)

\* Lines 81-197 by their results: usage_data and git_info are set, the
\* rest of the invocation is untouched.
Providers(p) ==
    /\ pc[p] = "u_check"
    /\ \E usage \in RenderUsages, tree \in TreeSegments :
           /\ usage_data' = [usage_data EXCEPT ![p] = usage]
           /\ git_info' = [git_info EXCEPT ![p] = tree]
    /\ pc' = [pc EXCEPT ![p] = "render"]
    /\ UNCHANGED <<now, ticks, conc, ufile, gfile, data, wt, out, exitCode,
                   h, lastWrite>>

RenderNext ==
    \E p \in Procs :
        \/ ReadSnapshot(p)
        \/ Providers(p)
        \/ Output(p)

RenderSpec == SeqInit /\ [][RenderNext]_vars

(***************************************************************************)
(* The invocations one after another within one second, in a repository    *)
(* whose branch may have any name: none (a detached HEAD prints nothing),  *)
(* a plain name, a name that contains the character "|".                   *)
(***************************************************************************)
WideBranches ==
    {Ok(<< >>), Ok(<<"m", "\n">>), Ok(<<"a", "|", "1", "\n">>),
     Ok(<<"a", "|", "b", "\n">>)}

GitRefreshWide(p) == GitRefreshWith(p, WideBranches)

CacheNext ==
    \E p \in Procs :
        \/ Start(p)
        \/ UsageCheck(p)
        \/ UsageRefresh(p)
        \/ UsageOpen(p)
        \/ UsageWrite(p)
        \/ UsageExcept(p)
        \/ GitCheck(p)
        \/ GitRefreshWide(p)
        \/ GitOpen(p)
        \/ GitWrite(p)
        \/ Output(p)

CacheSpec == SeqInit /\ [][CacheNext]_vars

(***************************************************************************)
(* Properties.                                                             *)
(***************************************************************************)
Segs(o) ==
    {o.line1[i] : i \in DOMAIN o.line1} \cup {o.line2[i] : i \in DOMAIN o.line2}

SegKinds(o) == {s.k : s \in Segs(o)}

\* The segments whose data comes from the session snapshot, from the
\* working-tree provider, from the usage provider.
SnapshotSegs(o) == {s \in Segs(o) : s.k \in {"model", "path", "context", "lines"}}
TreeSegs(o) == {s \in Segs(o) : s.k = "git"}
QuotaSegs(o) == {s \in Segs(o) : s.k \in {"current", "weekly", "extra"}}

\* The usage provider of p is over and usage_data[p] is what will be
\* rendered.
UsageDone(p) == pc[p] \in {"g_check", "g_refresh", "g_open", "g_write", "render"}

\* C1: every invocation that ends, ends with exit code 0, whatever standard
\* input and the cache files hold.
C1_ExitCodeAlwaysZero ==
    \A p \in Procs : exitCode[p] \in {-1, 0}

\* C2: provider failures are isolated.  For every render that completes,
\* the segments built from the session snapshot are the same whatever the
\* working-tree provider and the usage provider yield, the working-tree
\* segment is the same whatever the usage provider yields, and the usage
\* segments are the same whatever the working-tree provider yields.
C2_ProvidersIsolated ==
    \A p \in Procs :
        pc[p] = "render" /\ ~RenderRaises(data[p], usage_data[p]) =>
            LET this == Render(data[p], usage_data[p], git_info[p])
            IN  \A g \in {<< >>, git_info_of(WT(<<"m">>, 1, 0, 0, << >>))},
                   u \in {JNull, UsagePlain} :
                    LET other == Render(data[p], u, g)
                    IN  /\ SnapshotSegs(other) = SnapshotSegs(this)
                        /\ g = git_info[p] => TreeSegs(other) = TreeSegs(this)
                        /\ u = usage_data[p] => QuotaSegs(other) = QuotaSegs(this)

\* C3: when the usage refresh fails (request error, timeout, non-2xx
\* status, unparsable body), the payload used for rendering is the payload
\* the cache file holds at that moment, however old, and absent when there
\* is no cache file; the failure does not end the run, which goes on to the
\* working-tree provider.
C3_StaleFallback ==
    \A p \in Procs :
        h[p].uRefresh = "failed" =>
            /\ UsageDone(p) =>
                   usage_data[p] = IF Parsable(h[p].uPrior)
                                   THEN JsonLoads(h[p].uPrior.content)
                                   ELSE JNull
            /\ pc[p] = "exited" => "revparse" \in h[p].calls

\* C3 witness: a refresh failed, the cache file is older than its max-age,
\* and its payload is the one to be rendered.
C3_Witness ==
    \E p \in Procs :
        /\ pc[p] = "g_check"
        /\ h[p].uRefresh = "failed"
        /\ ufile.exists /\ now - ufile.mtime > USAGE_MAX_AGE
        /\ usage_data[p] = UsagePlain

\* C4: stale is preferred over absent.  An invocation that ends and whose
\* provider could not obtain live data (no token, a failed request; a
\* failed branch or status query) while a prior cache entry existed renders
\* that provider's segment.
C4_StalePreferredOverAbsent ==
    \A p \in Procs :
        pc[p] = "exited" /\ exitCode[p] = 0 =>
            /\ h[p].uRefresh \in {"notoken", "failed"}
                 /\ Parsable(h[p].uPrior)
                 /\ ~UsageRaises(JsonLoads(h[p].uPrior.content))
                   => "current" \in SegKinds(out[p])
            /\ h[p].gRefresh = "failed" /\ TreeParsable(h[p].gPrior)
                   => "git" \in SegKinds(out[p])

\* C5: cache hit.  An invocation that finds a cache file with
\* now - written_at <= max_age (the boundary included) does not invoke
\* that provider's refresh: no token lookup, request or write; no branch,
\* status or remote query.
C5_CacheHitNoRefresh ==
    \A p \in Procs :
        /\ h[p].uWithin =>
               h[p].calls \cap {"creds", "keychain", "http"} = {} /\ h[p].uWrote = 0
        /\ h[p].gWithin =>
               h[p].calls \cap {"branch", "status", "remote"} = {} /\ h[p].gWrote = 0

\* C6: an invocation that reads a cache file whose content does not parse
\* treats it as a miss and attempts the refresh in that invocation.
C6_TornReadRefreshes ==
    \A p \in Procs :
        pc[p] = "exited" =>
            /\ h[p].uTorn => "creds" \in h[p].calls
            /\ h[p].gTorn => "branch" \in h[p].calls

\* C7: last writer wins.  Once two concurrent invocations that both
\* refreshed a source and wrote its cache have finished, the cache file
\* holds exactly the text of the write that happened last.
C7_LastWriterWins ==
    /\ (\A p \in Procs : pc[p] = "exited" /\ h[p].uRefresh = "ok" /\ h[p].uWrote = 1)
           => ufile.content = lastWrite.u
    /\ (\A p \in Procs : pc[p] = "exited" /\ h[p].gRefresh = "ok" /\ h[p].gWrote = 1)
           => gfile.content = lastWrite.g

\* Who wrote what, for C8.
WroteAsRefreshed(p) ==
    /\ h[p].uWrote <= 1 /\ h[p].gWrote <= 1
    /\ h[p].uWrote = 1 => h[p].uRefresh = "ok"
    /\ h[p].gWrote = 1 => h[p].gRefresh = "ok"
    /\ pc[p] = "exited" =>
           /\ h[p].uRefresh = "ok" => h[p].uWrote = 1
           /\ h[p].gRefresh = "ok" => h[p].gWrote = 1

\* C8: cache files change only on a successful refresh.  Each invocation
\* performs the write of a provider's cache file once if that provider's
\* refresh succeeded and never otherwise, and every step that changes the
\* content or the timestamp of a cache file is a step of the write of an
\* invocation whose refresh of that provider succeeded.
C8_WriteOnlyOnSuccess ==
    [][/\ \A p \in Procs : WroteAsRefreshed(p)'
       /\ ufile' # ufile =>
              \E p \in Procs : /\ pc[p] \in {"u_open", "u_write"}
                               /\ pc'[p] # pc[p]
                               /\ h[p].uRefresh = "ok"
       /\ gfile' # gfile =>
              \E p \in Procs : /\ pc[p] \in {"g_open", "g_write"}
                               /\ pc'[p] # pc[p]
                               /\ h[p].gRefresh = "ok"]_vars

\* C8 witness: an invocation has ended whose usage refresh succeeded and
\* was written once and whose working-tree refresh failed and wrote
\* nothing, beside a cache file from an earlier run.
C8_Witness ==
    \E p \in Procs :
        /\ pc[p] = "exited"
        /\ h[p].uRefresh = "ok" /\ h[p].uWrote = 1
        /\ h[p].gRefresh = "failed" /\ h[p].gWrote = 0
        /\ gfile.exists /\ gfile.mtime < now

\* The counts the classification rule gives for the entries of a scan.
Classified(scan) ==
    [staged |-> Cardinality({i \in DOMAIN scan :
                    scan[i][1] \notin {" ", "?"}}),
     modified |-> Cardinality({i \in DOMAIN scan :
                    scan[i][1] # "?" /\ scan[i][2] \notin {" ", "?"}}),
     untracked |-> Cardinality({i \in DOMAIN scan : scan[i][1] = "?"})]

\* C9: working-tree classification.  After a refresh the counts are those
\* of the scan's entries: index M and worktree blank is staged only, index
\* blank and worktree M is modified only, ?? is untracked only, at any
\* position in the output.
C9_Classification ==
    \A p \in Procs :
        pc[p] \in {"g_open", "g_write"} =>
            /\ wt[p].staged = Classified(h[p].scan).staged
            /\ wt[p].modified = Classified(h[p].scan).modified
            /\ wt[p].untracked = Classified(h[p].scan).untracked

\* C10: every external call carries a timeout, so no invocation is ever
\* blocked on a collaborator that never responds.
C10_NoCallBlocksForever ==
    \A p \in Procs : pc[p] # "hung"

\* C11: token acquisition order.  Whenever the usage provider needs a
\* refresh on a platform that has a secret store, a credential file that is
\* absent, unparsable or without a token is followed by the secret-store
\* lookup, and a token the secret store holds is the token of the refresh.
C11_TokenOrder ==
    \A p \in Procs :
        pc[p] = "u_refresh" =>
            \A creds \in {"absent", "unparsable", "notoken"}, kc \in KeychainOutcomes :
                LET tl == TokenLookup(creds, TRUE, kc)
                IN  /\ "keychain" \in tl.calls
                    /\ kc.r = "ok" => tl.end = "token"

\* C12: the usage request is sent only by an invocation that obtained a
\* non-empty token; an invocation that obtained none sends no request and
\* does not open the cache file for writing.
C12_NoRequestWithoutToken ==
    \A p \in Procs :
        /\ "http" \in h[p].calls => h[p].uToken
        /\ h[p].uWrote > 0 => h[p].uToken
        /\ h[p].uRefresh = "notoken" =>
               /\ ~h[p].uToken
               /\ "http" \notin h[p].calls
               /\ h[p].uWrote = 0
               /\ pc[p] \notin {"u_open", "u_write"}

\* C12 witness: an invocation has ended that consulted the credential file
\* and the secret store, got no token, sent no request, and left no cache
\* file.
C12_Witness ==
    \E p \in Procs :
        /\ pc[p] = "exited"
        /\ h[p].uRefresh = "notoken"
        /\ {"creds", "keychain"} \subseteq h[p].calls
        /\ "http" \notin h[p].calls
        /\ ~ufile.exists

Line1Segs(o) == {o.line1[i] : i \in DOMAIN o.line1}
Line2Segs(o) == {o.line2[i] : i \in DOMAIN o.line2}

\* C13: end to end with no optional source.  For the full snapshot (model
\* Opus, 45 %, window 200000, 90000 input tokens, a total cost, directory
\* p under the home directory), with no cache file, the usage provider
\* absent and the directory outside any working tree, the output is one
\* line and no second line, and that line holds the model name, the
\* token counts 90.0k/200.0k with the badge 45% in the nominal colour, the
\* cost with two decimals, and the path ~/p.
C13_SingleLineEndToEnd ==
    \A p \in Procs :
        /\ pc[p] = "render"
        /\ data[p] = DataFull
        /\ usage_data[p] = JNull
        /\ h[p].gRefresh = "notree"
        /\ ~ufile.exists /\ ~gfile.exists
        => LET o == Render(data[p], usage_data[p], git_info[p])
               cost == get(cost_obj_of(data[p]), "total_cost_usd", JNum(0))
           IN  /\ o.line2 = << >>
               /\ Seg("model", <<"WHITE", "O", "p", "u", "s">>) \in Line1Segs(o)
               /\ Seg("context", <<"9", "0", ".", "0", "k", "/",
                                   "2", "0", "0", ".", "0", "k", " ",
                                   "GREEN", "4", "5", "%">>) \in Line1Segs(o)
               /\ Seg("cost", <<"$">> \o Money(100 * cost.v)) \in Line1Segs(o)
               /\ Seg("path", <<"~", "/", "p">>) \in Line1Segs(o)

endswith(s, suffix) ==
    Len(s) >= Len(suffix) /\ SubSeq(s, Len(s) - Len(suffix) + 1, Len(s)) = suffix

NoResetInfo == <<"n", "o", " ", "r", "e", "s", "e", "t", " ", "i", "n", "f", "o">>

\* The window label of each key of the payload.
WindowLabel(k) == IF k = "five_hour" THEN "current" ELSE "weekly"

\* C16: whenever usage data is available, the rolling-window segment and
\* the weekly segment are both rendered, and a window whose reset
\* timestamp is absent shows its percentage with the text "no reset info".
C16_BothWindowsNoResetInfo ==
    \A p \in Procs :
        /\ pc[p] = "render"
        /\ usage_data[p] # JNull
        /\ ~RenderRaises(data[p], usage_data[p])
        => LET o == Render(data[p], usage_data[p], git_info[p])
           IN  \A k \in {"five_hour", "seven_day"} :
                   \E s \in Line2Segs(o) :
                       /\ s.k = WindowLabel(k)
                       /\ get(window_of(usage_data[p], k), "resets_at", JNull) = JNull
                              => endswith(s.s, NoResetInfo)

\* The scans git can answer with in a working directory.
OwnScans(work_dir) ==
    {e.w : e \in {x \in {GitRefreshEnd(br, st, rm) :
                             br \in BranchOutcomes(work_dir),
                             st \in StatusOutcomes, rm \in RemoteOutcomes} :
                     x.end = "ok"}}

\* C17: with sessions in different working directories, the working-tree
\* segment an invocation renders comes from a scan of its own directory.
C17_OwnDirectoryOnly ==
    \A p \in Procs :
        conc /\ pc[p] = "render" /\ git_info[p] # << >> =>
            \E w \in OwnScans(work_dir_of(data[p])) : git_info[p] = git_info_of(w)

\* C18: a refresh that succeeded is rendered even when the cache file
\* could not be written: the usage payload just fetched is the payload to
\* render, and the working-tree segment is the one of the scan just made.
C18_PersistFailureStillRenders ==
    \A p \in Procs :
        /\ UsageDone(p) /\ h[p].uRefresh = "ok" => usage_data[p] # JNull
        /\ pc[p] = "render" /\ h[p].gRefresh = "ok" =>
               git_info[p] = git_info_of(wt[p])

\* C14: for every valid session object with any subset of the optional
\* context-window and cost fields missing, and whatever the providers
\* yield, line 1 of the output holds the model segment and the path
\* segment.
C14_Line1AlwaysModelAndPath ==
    \A p \in Procs :
        pc[p] = "exited" =>
            \E m \in Line1Segs(out[p]), d \in Line1Segs(out[p]) :
                m.k = "model" /\ d.k = "path"

\* C14 witness: an invocation has ended whose snapshot had no context
\* window (the defaults 0 of 200000 and 0 % are shown) and whose line 1
\* holds the model and the path.
C14_Witness ==
    \E p \in Procs :
        /\ pc[p] = "exited"
        /\ out[p].line1 = <<Seg("model", <<"WHITE", "O", "p", "u", "s">>),
                            Seg("path", <<"~", "/", "p">>)>>
        /\ out[p].line2 = <<Seg("context", <<"0", "/", "2", "0", "0", ".", "0", "k",
                                             " ", "GREEN", "0", "%">>)>>

\* The payload marks its overage as enabled.
MarkedEnabled(u) ==
    /\ IsObj(u)
    /\ "extra_usage" \in DOMAIN u.v
    /\ get(u.v.extra_usage, "is_enabled", JNull) = JBool(TRUE)

\* (limit - used) / 100 with two decimals, for the payloads with overage.
ExpectedLeft(u) ==
    CASE u = UsageExtra -> <<"7", ".", "5", "0">>
      [] u = UsageOver -> <<"-", "5", ".", "0", "0">>

\* C15: the overage segment is rendered exactly when usage data is
\* available and marks overage as enabled; it shows (limit - used) / 100
\* with two decimals, negative when used exceeds the limit; nothing fails.
C15_OverageSegment ==
    \A p \in Procs :
        /\ pc[p] = "render"
        /\ usage_data[p] \in {JNull, UsagePlain, UsageExtra, UsageOver, UsageDisabled}
        /\ ~ContextRaises(data[p])
        => LET u == usage_data[p]
               o == Render(data[p], u, git_info[p])
           IN  /\ ~UsageRaises(u)
               /\ (\E s \in Line2Segs(o) : s.k = "extra")
                      <=> (u # JNull /\ MarkedEnabled(u))
               /\ u # JNull /\ MarkedEnabled(u) =>
                      Seg("extra", <<"$">> \o ExpectedLeft(u) \o <<" ", "left">>)
                          \in Line2Segs(o)

\* C15 witness: an invocation has ended with exit code 0 whose line 2
\* shows a negative amount left.
C15_Witness ==
    \E p \in Procs :
        /\ pc[p] = "exited"
        /\ exitCode[p] = 0
        /\ Seg("extra", <<"$", "-", "5", ".", "0", "0", " ", "left">>)
               \in Line2Segs(out[p])

\* C19: the working-tree cache round-trips.  Parsing the line a refresh
\* is about to write gives back the branch, the three counts and the
\* remote of the refresh, and so the same working-tree segment.
C19_CacheRoundTrip ==
    \A p \in Procs :
        pc[p] = "g_write" =>
            LET line == GitCacheLine(wt[p])
            IN  /\ ~ParseGitCacheRaises(line)
                /\ ParseGitCache(line) = wt[p]
                /\ git_info_of(ParseGitCache(line)) = git_info_of(wt[p])

\* C20: the path segment shows ~ for the home directory only when the
\* working directory is the home directory or lies below it; any other
\* directory is shown unchanged.
C20_HomeAtComponentBoundary ==
    \A p \in Procs :
        pc[p] = "render" =>
            LET cwd == cwd_of(data[p]).v
                shown == Render(data[p], usage_data[p], git_info[p]).line1[2].s
            IN  IF cwd = HOME \/ startswith(cwd, HOME \o <<"/">>)
                THEN shown = <<"~">> \o SubSeq(cwd, Len(HOME) + 1, Len(cwd))
                ELSE shown = cwd

====
